---- MODULE Spec2Model ----
(***************************************************************************)
(* Model of src/lib.rs of mmapfile: MmapFileHdr (the bincode fixint header *)
(* codec), page_align, MmapFile::map / open / with_capacity and the typed  *)
(* slice access, over a one-path file system whose files are sparse byte   *)
(* maps (an offset that is not stored reads as zero, as in a file extended *)
(* by set_len).                                                            *)
(***************************************************************************)
EXTENDS Integers, Sequences, FiniteSets, TLC

VARIABLES fs, views, outcome, ghost, build

vars == <<fs, views, outcome, ghost, build>>

(* ------------------------------ bounds -------------------------------- *)

\* Small capacities 0..MaxCap are tried besides the page-sized ones.
MaxCap == 2

\* View handles alive at once.
MaxViews == 2

\* Nesting depth of the one-element array type [[..[u8; 1]..; 1]; 1], whose
\* type name (2 + 5 * NestDepth characters) is longer than one page.
NestDepth == 819

(* ----------------------------- constants ------------------------------ *)

PageSize == 4096

Paths == {"a"}

Capacities == (0 .. MaxCap) \cup {4000, 4096}

Faults == {"none", "write", "set_len", "mmap"}

Types == {"u8", "i8", "u16"}

\* "[[..[u8; 1]..; 1]; 1]"
NestedName ==
  [i \in 1 .. NestDepth |-> 91] \o <<117, 56>> \o
  [i \in 1 .. 4 * NestDepth |->
     CASE i % 4 = 1 -> 59 [] i % 4 = 2 -> 32 [] i % 4 = 3 -> 49 [] OTHER -> 93]

\* std::any::type_name::<T>() as UTF-8 bytes.
TypeName(t) ==
  CASE t = "u8" -> <<117, 56>>
    [] t = "i8" -> <<105, 56>>
    [] t = "u16" -> <<117, 49, 54>>
    [] t = "nested" -> NestedName

\* core::mem::size_of::<T>()
SizeOf(t) == IF t = "u16" THEN 2 ELSE 1

\* core::mem::align_of::<T>()
AlignOf(t) == IF t = "u16" THEN 2 ELSE 1

Magic == <<77, 77, 65, 80>>

(* --------------------------- header codec ----------------------------- *)

RECURSIVE LEBytes(_, _)
\* n as k little-endian bytes (n < 256^k).
LEBytes(n, k) == IF k = 0 THEN <<>> ELSE <<n % 256>> \o LEBytes(n \div 256, k - 1)

RECURSIVE LEValue(_)
LEValue(b) == IF b = <<>> THEN 0 ELSE b[1] + 256 * LEValue(Tail(b))

\* bincode's variable-length integer encoding (the default without
\* with_fixint_encoding): one byte below 251, else a marker and 2, 4 or 8 bytes.
VarintU64(n) ==
  IF n < 251 THEN <<n>>
  ELSE IF n < 65536 THEN <<251>> \o LEBytes(n, 2)
  ELSE <<252>> \o LEBytes(n, 4)

FixintU64(n) == LEBytes(n, 8)

MmapFileHdr_new(t, size) == [magic |-> Magic, typename |-> TypeName(t), size |-> size]

\* The header under bincode's default integer encoding.
SerializeVarint(hdr) ==
  hdr.magic \o VarintU64(Len(hdr.typename)) \o hdr.typename \o VarintU64(hdr.size)

\* The bytes serialize_into writes: the 4 magic bytes, the string as a u64
\* length and its bytes, the u64 size.
Serialize(hdr) ==
  hdr.magic \o FixintU64(Len(hdr.typename)) \o hdr.typename \o FixintU64(hdr.size)

\* The size under bincode's default integer encoding.
serialized_size_varint(hdr) == Len(SerializeVarint(hdr))

\* The byte count of the fixint encoding of hdr.
serialized_size(hdr) == Len(Serialize(hdr))

align_up(val, alignment) == ((val + alignment - 1) \div alignment) * alignment

padded_size(hdr, t) ==
  IF AlignOf(t) > 1 THEN align_up(serialized_size(hdr), AlignOf(t))
  ELSE serialized_size(hdr)

\* Rounding down instead of up.
page_align_down(val) == (val \div 4096) * 4096

page_align(val) == ((val + 4095) \div 4096) * 4096

(* ------------------------------- files -------------------------------- *)

\* A file is its length, the bytes of its first write at offset 0 (head, a
\* sequence) and the non-zero bytes stored past them (tail, by offset); every
\* other offset below len reads as zero.
NoFile == [exists |-> FALSE, len |-> 0, head |-> <<>>, tail |-> <<>>]

EmptyFile == [exists |-> TRUE, len |-> 0, head |-> <<>>, tail |-> <<>>]

ReadByte(f, off) ==
  IF off < Len(f.head) THEN f.head[off + 1]
  ELSE IF off \in DOMAIN f.tail THEN f.tail[off] ELSE 0

\* n bytes from offset off (off + n <= f.len).
ReadBytes(f, off, n) ==
  IF off + n <= Len(f.head) THEN SubSeq(f.head, off + 1, off + n)
  ELSE [i \in 1 .. n |-> ReadByte(f, off + i - 1)]

\* Write seq at offset off.
PutBytes(f, off, seq) ==
  LET end == off + Len(seq)
      newlen == IF end > f.len THEN end ELSE f.len
  IN
  IF f.len = 0 /\ off = 0
  THEN [exists |-> TRUE, len |-> newlen, head |-> seq, tail |-> <<>>]
  ELSE
    LET hl == Len(f.head)
        past == {k \in off .. (end - 1) : k >= hl}
        nz == {k \in past : seq[k - off + 1] # 0}
        dom == (DOMAIN f.tail \ past) \cup nz
    IN  [exists |-> TRUE, len |-> newlen,
         head |-> IF off >= hl THEN f.head
                  ELSE [i \in 1 .. hl |->
                          IF off <= i - 1 /\ i - 1 < end THEN seq[i - off] ELSE f.head[i]],
         tail |-> [k \in dom |-> IF k \in nz THEN seq[k - off + 1] ELSE f.tail[k]]]

\* File::set_len: truncate or extend with zeros.
SetLen(f, n) ==
  [exists |-> TRUE, len |-> n,
   head |-> IF n < Len(f.head) THEN SubSeq(f.head, 1, n) ELSE f.head,
   tail |-> [k \in {j \in DOMAIN f.tail : j < n} |-> f.tail[k]]]

IsUtf8(b) == \A i \in 1 .. Len(b) : b[i] < 128

\* deserialize_from on a reader at position 0: magic, string, size, each
\* read failing at end of file; the magic bytes are stored, not compared.
Deserialize(f) ==
  IF f.len < 12 THEN [ok |-> FALSE, why |-> "eof"]
  ELSE LET slen == LEValue(ReadBytes(f, 4, 8)) IN
    IF 12 + slen > f.len THEN [ok |-> FALSE, why |-> "eof"]
    ELSE IF ~IsUtf8(ReadBytes(f, 12, slen)) THEN [ok |-> FALSE, why |-> "utf8"]
    ELSE IF 12 + slen + 8 > f.len THEN [ok |-> FALSE, why |-> "eof"]
    ELSE [ok |-> TRUE, why |-> "",
          hdr |-> [magic |-> ReadBytes(f, 0, 4),
                   typename |-> ReadBytes(f, 12, slen),
                   size |-> LEValue(ReadBytes(f, 12 + slen, 8))]]

(* ------------------------------ mapping ------------------------------- *)

NoView == [live |-> FALSE, path |-> "", type |-> "", offset |-> 0, size |-> 0, by |-> ""]

NoGhost ==
  [made |-> FALSE, type |-> "", cap |-> 0, hdr |-> <<>>, offset |-> 0,
   clean |-> FALSE, mapped |-> FALSE, wrote |-> FALSE, shadow |-> <<>>]

FreeVid == IF \E v \in 1 .. MaxViews : ~views[v].live
           THEN CHOOSE v \in 1 .. MaxViews :
                  ~views[v].live /\ \A w \in 1 .. v - 1 : views[w].live
           ELSE 0

\* The mapping length rounded up to a page.
DataLenPadded(capacity, t) == page_align(capacity * SizeOf(t))

\* let data_len = capacity * std::mem::size_of::<T>();
DataLen(capacity, t) == capacity * SizeOf(t)

\* mmap(2) through Map::map(..).known(): EINVAL for a zero length or an
\* offset that is not a multiple of the page size, or the injected failure.
MmapFails(data_len, offset, fault) ==
  data_len = 0 \/ offset % PageSize # 0 \/ fault = "mmap"

\* MmapFile::map: the two checks, then the mapping of data_len bytes at offset.
MapFile(f, offset, capacity, t, fault) ==
  LET data_len == DataLen(capacity, t) IN
  IF f.len < data_len + offset
  THEN [res |-> "panic", err |-> "file too small", offset |-> offset, size |-> data_len]
  ELSE IF MmapFails(data_len, offset, fault)
  THEN [res |-> "panic", err |-> "mmap", offset |-> offset, size |-> data_len]
  ELSE [res |-> "Ok", err |-> "", offset |-> offset, size |-> data_len]

\* cast_slice::<u8, T> of the Map's size bytes.
ViewLen(v) == v.size \div SizeOf(v.type)

ReadRecord(v, i) ==
  LEValue(ReadBytes(fs[v.path], v.offset + i * SizeOf(v.type), SizeOf(v.type)))

\* create(true) in place of create_new(true): an existing file is reused.
CreateNewAlways(p) == FALSE

\* OpenOptions::create_new(true): the open fails when the path exists.
CreateNewFails(p) == fs[p].exists

\* The offset rounded to the record type's alignment instead of the page size.
OpenOffsetPadded(hdr, t) == padded_size(hdr, t)

\* let offset = page_align(MmapFileHdr::serialized_size(&hdr));
OpenOffset(hdr, t) == page_align(serialized_size(hdr))

\* The data region placed at the start of the file, over the header.
CreateOffsetZero(hdr) == 0

\* let hdr_len = page_align(hdr.serialized_size());
CreateOffset(hdr) == page_align(serialized_size(hdr))

Result(op, p, t, cap, fault, existed, res, err, offset, vid) ==
  [op |-> op, path |-> p, type |-> t, cap |-> cap, fault |-> fault,
   existed |-> existed, res |-> res, err |-> err, offset |-> offset, vid |-> vid]

(* ----------------------------- operations ----------------------------- *)

\* MmapFile::<T>::with_capacity(p, cap); fault names the step the host fails.
WithCapacity(p, t, cap, fault) ==
  /\ UNCHANGED build
  /\ IF CreateNewFails(p)
       THEN /\ fault = "none"
            /\ outcome' = Result("create", p, t, 0, fault, fs[p].exists, "Err",
                                 "AlreadyExists", -1, 0)
            /\ UNCHANGED <<fs, views, ghost>>
       ELSE
         LET hdr == MmapFileHdr_new(t, cap)
             written == PutBytes(EmptyFile, 0, Serialize(hdr))
             hdr_len == CreateOffset(hdr)
             data_len == cap * SizeOf(t)
             sized == SetLen(written, page_align(hdr_len + data_len))
             m == MapFile(sized, hdr_len, cap, t, fault)
             g == [made |-> TRUE, type |-> t, cap |-> cap, hdr |-> Serialize(hdr),
                   offset |-> hdr_len, clean |-> fault = "none", mapped |-> FALSE,
                   wrote |-> FALSE, shadow |-> <<>>]
         IN
         IF fault = "write"
         THEN /\ fs' = [fs EXCEPT ![p] = EmptyFile]
              /\ outcome' = Result("create", p, t, cap, fault, fs[p].exists, "panic",
                                   "serialize", -1, 0)
              /\ ghost' = [ghost EXCEPT ![p] = [g EXCEPT !.hdr = <<>>]]
              /\ UNCHANGED views
         ELSE IF fault = "set_len"
         THEN /\ fs' = [fs EXCEPT ![p] = written]
              /\ outcome' = Result("create", p, t, cap, fault, fs[p].exists, "Err",
                                   "set_len", -1, 0)
              /\ ghost' = [ghost EXCEPT ![p] = g]
              /\ UNCHANGED views
         ELSE IF m.res # "Ok"
         THEN /\ fs' = [fs EXCEPT ![p] = sized]
              /\ outcome' = Result("create", p, t, cap, fault, fs[p].exists, m.res,
                                   m.err, m.offset, 0)
              /\ ghost' = [ghost EXCEPT ![p] = g]
              /\ UNCHANGED views
         ELSE /\ FreeVid # 0
              /\ fs' = [fs EXCEPT ![p] = sized]
              /\ views' = [views EXCEPT ![FreeVid] =
                             [live |-> TRUE, path |-> p, type |-> t, offset |-> m.offset,
                              size |-> m.size, by |-> "create"]]
              /\ outcome' = Result("create", p, t, cap, fault, fs[p].exists, "Ok", "",
                                   m.offset, FreeVid)
              /\ ghost' = [ghost EXCEPT ![p] = [g EXCEPT !.mapped = TRUE]]

\* MmapFile::<T>::open(p).
Open(p, t, fault) ==
  /\ fault \in {"none", "mmap"}
  /\ UNCHANGED <<fs, build>>
  /\ IF ~fs[p].exists
     THEN /\ fault = "none"
          /\ outcome' = Result("open", p, t, 0, fault, FALSE, "Err", "NotFound", -1, 0)
          /\ UNCHANGED <<views, ghost>>
     ELSE LET d == Deserialize(fs[p]) IN
       IF ~d.ok
       THEN /\ fault = "none"
            /\ outcome' = Result("open", p, t, 0, fault, TRUE, "panic", "deserialize", -1, 0)
            /\ UNCHANGED <<views, ghost>>
       ELSE IF d.hdr.typename # TypeName(t)
       THEN /\ fault = "none"
            /\ outcome' = Result("open", p, t, 0, fault, TRUE, "panic", "type mismatch", -1, 0)
            /\ UNCHANGED <<views, ghost>>
       ELSE LET m == MapFile(fs[p], OpenOffset(d.hdr, t), d.hdr.size, t, fault) IN
         IF m.res # "Ok"
         THEN /\ outcome' = Result("open", p, t, d.hdr.size, fault, TRUE, m.res, m.err,
                                   m.offset, 0)
              /\ UNCHANGED <<views, ghost>>
         ELSE /\ FreeVid # 0
              /\ views' = [views EXCEPT ![FreeVid] =
                             [live |-> TRUE, path |-> p, type |-> t, offset |-> m.offset,
                              size |-> m.size, by |-> "open"]]
              /\ outcome' = Result("open", p, t, d.hdr.size, fault, TRUE, "Ok", "",
                                   m.offset, FreeVid)
              /\ ghost' = [ghost EXCEPT ![p].mapped = TRUE]

\* The last value stored at each index; an index that holds zero is left out.
Remember(shadow, i, val) ==
  LET dom == IF val = 0 THEN DOMAIN shadow \ {i} ELSE DOMAIN shadow \cup {i}
  IN  [k \in dom |-> IF k = i THEN val ELSE shadow[k]]

WriteIdx(n) == {0, n - 1} \cap (0 .. n - 1)

Values(t) == {x \in {0, 1, 255, 258} : x < (IF SizeOf(t) = 2 THEN 65536 ELSE 256)}

\* as_slice_mut()[i] = val on a live view.
Write(v, i, val) ==
  /\ views[v].live
  /\ i \in WriteIdx(ViewLen(views[v]))
  /\ val \in Values(views[v].type)
  /\ LET w == views[v]
         sz == SizeOf(w.type)
     IN  fs' = [fs EXCEPT ![w.path] = PutBytes(@, w.offset + i * sz, LEBytes(val, sz))]
  /\ ghost' = [ghost EXCEPT ![views[v].path].wrote = TRUE,
                            ![views[v].path].shadow = Remember(@, i, val)]
  /\ outcome' = Result("write", views[v].path, views[v].type, 0, "none", TRUE, "Ok", "", -1, v)
  /\ UNCHANGED <<views, build>>

\* The view goes out of scope: the mapping is released.
Drop(v) ==
  /\ views[v].live
  /\ views' = [views EXCEPT ![v] = NoView]
  /\ outcome' = Result("drop", views[v].path, views[v].type, 0, "none", TRUE, "Ok", "", -1, v)
  /\ UNCHANGED <<fs, ghost, build>>

(* --------------------------- initial states --------------------------- *)

Foreign(hdr, len) == SetLen(PutBytes(EmptyFile, 0, hdr), len)

\* Files another program left at the path: a well-formed file with another
\* magic tag, truncated headers, a name that is not UTF-8, a string length
\* that runs past the end of the file, an empty file.
ForeignFiles ==
  LET good == [magic |-> Magic, typename |-> TypeName("u8"), size |-> 2]
      bad == [good EXCEPT !.magic = <<88, 77, 65, 80>>]
  IN  { Foreign(Serialize(bad), 2 * PageSize),
        Foreign(SubSeq(Serialize(good), 1, 10), 10),
        Foreign(SubSeq(Serialize(good), 1, 16), 16),
        Foreign(Serialize([good EXCEPT !.typename = <<255, 56>>]), 2 * PageSize),
        Foreign(Magic \o FixintU64(200) \o TypeName("u8") \o FixintU64(2), 22),
        Foreign(<<>>, 0) }

Start ==
  /\ fs \in [Paths -> {NoFile} \cup ForeignFiles]
  /\ views = [v \in 1 .. MaxViews |-> NoView]
  /\ outcome = Result("init", "", "", 0, "none", FALSE, "Ok", "", -1, 0)
  /\ ghost = [p \in Paths |-> NoGhost]

\* The record types the program is instantiated with and the capacities its
\* callers pass.
Init == Start /\ build = [types |-> Types, caps |-> Capacities]

InitWide == Start /\ build = [types |-> {"u8", "nested"}, caps |-> {1, 12345, 1073741824}]

Next ==
  \/ \E p \in Paths, t \in build.types, cap \in build.caps, fault \in Faults :
       WithCapacity(p, t, cap, fault)
  \/ \E p \in Paths, t \in build.types, fault \in Faults : Open(p, t, fault)
  \/ \E v \in 1 .. MaxViews, val \in Values("u16") :
       \E i \in WriteIdx(ViewLen(views[v])) : Write(v, i, val)
  \/ \E v \in 1 .. MaxViews : Drop(v)

Spec == Init /\ [][Next]_vars

SpecWide == InitWide /\ [][Next]_vars

(* ------------------------------ claims -------------------------------- *)

LiveViews == {v \in 1 .. MaxViews : views[v].live}

\* Every byte of [off, off + size) of f is zero.
RegionZero(f, off, size) ==
  /\ \A k \in DOMAIN f.tail : k < off \/ k >= off + size
  /\ \A i \in 1 .. Len(f.head) : i - 1 < off \/ i - 1 >= off + size \/ f.head[i] = 0

ViewZero(v) == RegionZero(fs[v.path], v.offset, v.size)

ShadowAt(shadow, i) == IF i \in DOMAIN shadow THEN shadow[i] ELSE 0

\* The records of view v are the last values written, zero elsewhere.
ViewMatches(v, shadow) ==
  /\ \A i \in WriteIdx(ViewLen(v)) \cup DOMAIN shadow : ReadRecord(v, i) = ShadowAt(shadow, i)
  /\ \A k \in DOMAIN fs[v.path].tail :
       (k >= v.offset /\ k < v.offset + v.size)
         => ((k - v.offset) \div SizeOf(v.type)) \in DOMAIN shadow

\* C1: with_capacity(path, C) on a non-existing path, for every C >= 0, yields
\* a view of C zero records, and open(path) with the same type on the file it
\* made, with no write in between, yields a view of C zero records.
C1_CreateThenOpenZeroed ==
  LET g == ghost[outcome.path] IN
  /\ (outcome.op = "create" /\ ~outcome.existed /\ outcome.fault = "none")
       => /\ outcome.res = "Ok"
          /\ ViewLen(views[outcome.vid]) = outcome.cap
          /\ ViewZero(views[outcome.vid])
  /\ (outcome.op = "open" /\ outcome.fault = "none" /\ g.made /\ g.clean
        /\ ~g.wrote /\ g.type = outcome.type)
       => /\ outcome.res = "Ok"
          /\ ViewLen(views[outcome.vid]) = g.cap
          /\ ViewZero(views[outcome.vid])

\* C2: on a file that has been mapped, open(path) with the file's type yields
\* a view at the data offset with_capacity used, and every view reads, at
\* every index, the last value written there and zero where nothing was
\* written.
C2_RoundTrip ==
  /\ \A v \in LiveViews :
       LET g == ghost[views[v].path] IN
       g.made => /\ views[v].offset = g.offset
                 /\ ViewLen(views[v]) = g.cap
                 /\ ViewMatches(views[v], g.shadow)
  /\ LET g == ghost[outcome.path] IN
     (outcome.op = "open" /\ outcome.fault = "none" /\ g.made /\ g.mapped
        /\ g.type = outcome.type)
       => outcome.res = "Ok" /\ views[outcome.vid].by = "open"

C2_Reopened ==
  /\ outcome.op = "open" /\ outcome.res = "Ok"
  /\ ghost[outcome.path].made
  /\ ghost[outcome.path].shadow # <<>>
  /\ LiveViews = {outcome.vid}
  /\ ReadRecord(views[outcome.vid], 0) = 258

\* C3: open(path) for a type whose name differs from the stored type name
\* returns a type-mismatch error to the caller and no view; it does not panic.
C3_TypeMismatchIsRecoverable ==
  LET d == Deserialize(fs[outcome.path]) IN
  (outcome.op = "open" /\ outcome.existed /\ ghost[outcome.path].made /\ d.ok
     /\ d.hdr.typename # TypeName(outcome.type))
    => outcome.res = "Err" /\ outcome.err = "TypeMismatch" /\ outcome.vid = 0

\* C4: open(path) returns no view when the header is truncated or malformed
\* or when the file's first four bytes are not "MMAP", and no live view is of
\* a file whose magic tag is not "MMAP".
C4_BadMagicOrMalformedFails ==
  /\ (outcome.op = "open" /\ outcome.existed
        /\ (~Deserialize(fs[outcome.path]).ok
              \/ ReadBytes(fs[outcome.path], 0, 4) # Magic))
       => outcome.res # "Ok" /\ outcome.vid = 0
  /\ \A v \in LiveViews : ReadBytes(fs[views[v].path], 0, 4) = Magic

\* C5: the offset with_capacity and open pass to the mapping is a multiple of
\* the page size and at least the header's encoded size, and so is the offset
\* of every live view, also for a type name longer than a page.
C5_OffsetPageAligned ==
  /\ (outcome.op = "create" /\ outcome.offset # -1)
       => /\ outcome.offset % PageSize = 0
          /\ outcome.offset >= serialized_size(MmapFileHdr_new(outcome.type, outcome.cap))
  /\ (outcome.op = "open" /\ outcome.offset # -1)
       => /\ outcome.offset % PageSize = 0
          /\ outcome.offset >= serialized_size(Deserialize(fs[outcome.path]).hdr)
  /\ \A v \in LiveViews :
       /\ views[v].offset % PageSize = 0
       /\ views[v].offset >= 20 + Len(TypeName(views[v].type))

C5_LongHeaderMapped ==
  /\ outcome.op = "open" /\ outcome.res = "Ok" /\ outcome.type = "nested"
  /\ Len(TypeName("nested")) > PageSize
  /\ outcome.offset = 2 * PageSize
  /\ \E v \in LiveViews : views[v].by = "create" /\ views[v].offset = 2 * PageSize

\* C6: the encoded length of the header with_capacity writes is 4 + 8 + the
\* length of the type name + 8 whatever the record count, 22 for "u8", and
\* equal to that of the same type's header with any other count.
C6_HeaderSizeIndependentOfCount ==
  \A p \in Paths :
    LET g == ghost[p] IN
    (g.made /\ g.hdr # <<>>)
      => /\ Len(g.hdr) = 4 + 8 + Len(TypeName(g.type)) + 8
         /\ serialized_size(MmapFileHdr_new(g.type, g.cap)) = Len(g.hdr)
         /\ g.type = "u8" => Len(g.hdr) = 22
         /\ \A c \in build.caps \cup {0, 250, 251, 65535, 65536} :
              serialized_size(MmapFileHdr_new(g.type, c)) = Len(g.hdr)

C6_LargeCountEncoded ==
  /\ ghost["a"].made /\ ghost["a"].type = "u8" /\ ghost["a"].cap = 1073741824
  /\ Len(ghost["a"].hdr) = 22
  /\ fs["a"].head = ghost["a"].hdr
  /\ Deserialize(fs["a"]).hdr.size = 1073741824

\* C7: a view of a file made with capacity C has exactly C elements, also
\* when C x record-size is not a multiple of the page size; its bytes lie
\* inside the file, whose length is a multiple of the page size.
C7_UnalignedCapacityExact ==
  \A v \in LiveViews :
    LET w == views[v]
        g == ghost[w.path]
    IN  g.made => /\ ViewLen(w) = g.cap
                  /\ w.size = g.cap * SizeOf(w.type)
                  /\ w.offset + w.size <= fs[w.path].len
                  /\ fs[w.path].len % PageSize = 0
                  /\ Deserialize(fs[w.path]).ok
                  /\ Deserialize(fs[w.path]).hdr.size = ViewLen(w)

C7_UnalignedWritten ==
  \E v \in LiveViews :
    /\ views[v].by = "open" /\ views[v].type = "u8"
    /\ ViewLen(views[v]) = 4000
    /\ (4000 * SizeOf("u8")) % PageSize # 0
    /\ fs[views[v].path].len = 2 * PageSize
    /\ ReadRecord(views[v], 3999) = 255

\* C8: with_capacity on a path that exists returns the already-exists error
\* and no view, and leaves the file and the live views as they were.
C8_CreateOnExistingFails ==
  [][(outcome'.op = "create" /\ fs[outcome'.path].exists)
       => /\ outcome'.res = "Err" /\ outcome'.err = "AlreadyExists"
          /\ outcome'.vid = 0
          /\ fs' = fs /\ views' = views]_vars

C8_RejectedOnWrittenFile ==
  /\ outcome.op = "create" /\ outcome.existed
  /\ outcome.res = "Err" /\ outcome.err = "AlreadyExists"
  /\ ghost[outcome.path].made /\ ghost[outcome.path].shadow # <<>>

\* C9: a with_capacity call that does not return a view leaves no file at the
\* path it was to create.
C9_CreateAllOrNothing ==
  (outcome.op = "create" /\ ~outcome.existed /\ outcome.res # "Ok")
    => ~fs[outcome.path].exists

\* C10: the header bytes with_capacity wrote stay at the start of the file
\* through every later write, open and release, and every view's mapped
\* region starts at or after the end of the header and ends inside the file.
C10_HeaderImmutable ==
  \A p \in Paths :
    LET g == ghost[p] IN
    (g.made /\ g.hdr # <<>>)
      => /\ fs[p].len >= Len(g.hdr)
         /\ ReadBytes(fs[p], 0, Len(g.hdr)) = g.hdr
         /\ \A v \in LiveViews :
              views[v].path = p
                => /\ views[v].offset >= Len(g.hdr)
                   /\ views[v].offset + views[v].size <= fs[p].len

C10_WrittenThroughTwoViews ==
  /\ Cardinality(LiveViews) = 2
  /\ \E v \in LiveViews : views[v].by = "open"
  /\ ghost["a"].made /\ Cardinality(DOMAIN ghost["a"].shadow) = 2
  /\ ReadBytes(fs["a"], 0, 4) = Magic
====
